---- MODULE Spec2Model ----
(***************************************************************************)
(* Cluster-mode client of ceresdb-client-rs: ClusterImpl::query,           *)
(* ClusterImpl::write, StandalonePool::get_or_create                       *)
(* (src/src/db_client/cluster.rs) and the merge of per-endpoint write      *)
(* results into ClusterWriteError (src/src/errors.rs).                     *)
(*                                                                         *)
(* Three specifications share the variables:                               *)
(*   Spec      one ClusterImpl serving one query/write call after another, *)
(*             stepped at its await points and at the polls of join_all;   *)
(*   SpecPool  NumCallers threads racing in StandalonePool::get_or_create; *)
(*   SpecMerge ClusterWriteError::from applied to arbitrary result lists.  *)
(***************************************************************************)
EXTENDS Integers, Sequences, FiniteSets, TLC

(* ------------------------------ bounds --------------------------------- *)
MaxNames == 2
NumEndpoints == 2
MaxRows == 1
NumCallers == 3
MaxResults == 3

AllNames == <<"cpu", "mem", "disk", "net", "io">>
AllEndpoints == <<"epA", "epB", "epC", "epD">>

Names == {AllNames[i] : i \in 1..MaxNames}
Endpoints == {AllEndpoints[i] : i \in 1..NumEndpoints}
Callers == 1..NumCallers

(* Option<Endpoint>::None *)
None == "None"

(* ------------------------------ helpers -------------------------------- *)
Range(s) == {s[i] : i \in DOMAIN s}

(* every iteration order of a HashMap with key set S *)
Perms(S) == {s \in [1..Cardinality(S) -> S] : \A i, j \in DOMAIN s : i # j => s[i] # s[j]}

SeqsUpTo(S, n) == UNION {[1..k -> S] : k \in 0..n}

(* the sequences that take their i-th element from sets[i] *)
RECURSIVE Choices(_)
Choices(sets) ==
    IF sets = <<>> THEN {<<>>}
    ELSE {<<h>> \o t : h \in Head(sets), t \in Choices(Tail(sets))}

RECURSIVE Flatten(_)
Flatten(ss) == IF ss = <<>> THEN <<>> ELSE Head(ss) \o Flatten(Tail(ss))

(* number of positions of seq s holding x *)
Count(s, x) == Cardinality({i \in DOMAIN s : s[i] = x})

(* ------------------------------ errors --------------------------------- *)
(* enum Error: one record per variant, the payload reduced to code and msg *)
ServerErr(code, msg) == [kind |-> "Server", code |-> code, msg |-> msg]
RpcErr(msg) == [kind |-> "Rpc", code |-> 0, msg |-> msg]
ConnectErr(addr) == [kind |-> "Connect", code |-> 0, msg |-> addr]
ClientErr(msg) == [kind |-> "Client", code |-> 0, msg |-> msg]
AuthFailErr(msg) == [kind |-> "AuthFail", code |-> 1, msg |-> msg]
UnknownErr(msg) == [kind |-> "Unknown", code |-> 0, msg |-> msg]
ClusterWriteErr(ce) == [kind |-> "ClusterWriteError", ce |-> ce]

(* Result<T> *)
Ok(v) == [tag |-> "Ok", val |-> v]
Err(e) == [tag |-> "Err", err |-> e]
NoResult == [tag |-> "none"]

(* WriteResponse::new *)
WriteResponse(success, failed) == [success |-> success, failed |-> failed]

(* errors::should_refresh: a predicate over the code and message of a      *)
(* ServerError                                                             *)
should_refresh(code, msg) == <<code, msg>> \in {<<130, "not leader">>}

(* what one single-node call can fail with *)
NodeErrors ==
    { ServerErr(130, "not leader"), ServerErr(500, "internal"),
      RpcErr("deadline exceeded"), ConnectErr("addr"),
      AuthFailErr("invalid token") }

(* what Router::route can fail with *)
RouterErrors == { RpcErr("route failed"), ServerErr(130, "not leader") }

WriteResponses == {WriteResponse(s, f) : s \in 0..MaxRows, f \in 0..MaxRows}

(* what a node answers to a sub-request of n entries: each entry is a row  *)
(* that was written or was not, or the call fails                          *)
NodeWriteOutcomes(n) ==
    {Ok(WriteResponse(s, n - s)) : s \in 0..n} \cup {Err(e) : e \in NodeErrors}

QueryResponses == {[affected |-> n] : n \in 0..MaxRows}
QueryOutcomes == {Ok(r) : r \in QueryResponses} \cup {Err(e) : e \in NodeErrors}

(* ------------------- ClusterWriteError (errors.rs) --------------------- *)
(* the fold of From<Vec<(Vec<String>, Result<WriteResponse>)>>: acc is     *)
(* (success_total, failed_total, ok_metrics, errors)                       *)
RECURSIVE FromLoop(_, _)
FromLoop(wirte_results, acc) ==
    IF wirte_results = <<>> THEN acc
    ELSE LET metrics == Head(wirte_results)[1]
             write_result == Head(wirte_results)[2]
         IN  IF write_result.tag = "Ok"
             THEN FromLoop(Tail(wirte_results),
                      [acc EXCEPT !.success_total = @ + write_result.val.success,
                                  !.failed_total = @ + write_result.val.failed,
                                  !.ok_metrics = @ \o metrics])
             ELSE FromLoop(Tail(wirte_results),
                      [acc EXCEPT !.errors = Append(@, <<metrics, write_result.err>>)])

(* the merge with the totals of the last successful entry, not their sum *)
FromLastTotals(wirte_results) ==
    LET acc == FromLoop(wirte_results,
                   [success_total |-> 0, failed_total |-> 0,
                    ok_metrics |-> <<>>, errors |-> <<>>])
        oks == {i \in DOMAIN wirte_results : wirte_results[i][2].tag = "Ok"}
        last == CHOOSE i \in oks : \A j \in oks : j <= i
    IN  [ok |-> <<acc.ok_metrics,
                  IF oks = {} THEN WriteResponse(0, 0) ELSE wirte_results[last][2].val>>,
         errors |-> acc.errors]

(* the merge with success_total passed for both counts *)
FromSuccessTwice(wirte_results) ==
    LET acc == FromLoop(wirte_results,
                   [success_total |-> 0, failed_total |-> 0,
                    ok_metrics |-> <<>>, errors |-> <<>>])
    IN  [ok |-> <<acc.ok_metrics, WriteResponse(acc.success_total, acc.success_total)>>,
         errors |-> acc.errors]

From(wirte_results) ==
    LET acc == FromLoop(wirte_results,
                   [success_total |-> 0, failed_total |-> 0,
                    ok_metrics |-> <<>>, errors |-> <<>>])
    IN  [ok |-> <<acc.ok_metrics, WriteResponse(acc.success_total, acc.failed_total)>>,
         errors |-> acc.errors]

all_ok(cluster_error) == cluster_error.errors = <<>>

NoClusterError == [ok |-> <<<<>>, WriteResponse(0, 0)>>, errors |-> <<>>]

(* ------------------- StandalonePool (cluster.rs) ----------------------- *)
(* a handle for an endpoint is the number of its construction among the    *)
(* handles built for that endpoint; 0 is "no entry"                        *)
NoHandle == 0

(* DashMap::get *)
PoolGet(p, endpoint) == p[endpoint]

(* DashMap::insert(k, h) in place of entry(k).or_insert(h) *)
OrInsertOverwrite(p, endpoint, h) == [p EXCEPT ![endpoint] = h]

(* DashMap::entry(k).or_insert(h): keeps an existing value *)
OrInsert(p, endpoint, h) ==
    IF p[endpoint] # NoHandle THEN p ELSE [p EXCEPT ![endpoint] = h]

(* a handle built and stored on every call *)
get_or_create_always(p, b, endpoint) ==
    LET h == b[endpoint] + 1
    IN  [pool |-> [p EXCEPT ![endpoint] = h],
         built |-> [b EXCEPT ![endpoint] = h], clnt |-> h]

(* get_or_create run by one thread with nobody else in between: the pool,  *)
(* the construction count and the returned handle                          *)
get_or_create(p, b, endpoint) ==
    IF PoolGet(p, endpoint) # NoHandle
    THEN [pool |-> p, built |-> b, clnt |-> PoolGet(p, endpoint)]
    ELSE LET h == b[endpoint] + 1
             p2 == OrInsert(p, endpoint, h)
         IN  [pool |-> p2, built |-> [b EXCEPT ![endpoint] = h], clnt |-> p2[endpoint]]

RECURSIVE GetClients(_, _, _)
GetClients(p, b, eps) ==
    IF eps = <<>> THEN [pool |-> p, built |-> b, clnts |-> <<>>]
    ELSE LET one == get_or_create(p, b, Head(eps))
             rest == GetClients(one.pool, one.built, Tail(eps))
         IN  [pool |-> rest.pool, built |-> rest.built,
              clnts |-> <<one.clnt>> \o rest.clnts]

(* ------------------------------ state ---------------------------------- *)
VARIABLES
    pc,                          \* position of the call being served
    op,                          \* "query", "write" or "none"
    metrics,                     \* req.metrics (query) / should_routes (write)
    entries,                     \* req.write_entries: name -> payload
    endpoints,                   \* what Router::route answered (a Result)
    no_corresponding_endpoints,
    wirte_metrics,
    subs,                        \* the futures handed to join_all / awaited
    metrics_result_pairs,
    cluster_error,
    result,                      \* what the call returned
    pool, built,                 \* StandalonePool.pool, handles constructed
                                 \* per endpoint
    routeCalls, evictCalls,      \* arguments of the calls made on the Router
    poolCalls,                   \* arguments of get_or_create
    nodeCalls,                   \* requests sent to single-node clients
    gpc, gep, gnew, gret,        \* get_or_create racers: position, endpoint,
                                 \* handle constructed, handle returned
    dropped                      \* handles constructed and not retained

callVars == <<pc, op, metrics, entries, endpoints, no_corresponding_endpoints,
              wirte_metrics, subs, metrics_result_pairs, cluster_error, result>>
logVars == <<routeCalls, evictCalls, poolCalls, nodeCalls>>
poolVars == <<pool, built>>
raceVars == <<gpc, gep, gnew, gret, dropped>>
vars == <<callVars, logVars, poolVars, raceVars>>

NoEntries == [m \in {} |-> <<>>]
Payload(m) == <<"rows of", m>>

IdleCall ==
    /\ pc = "idle"
    /\ op = "none"
    /\ metrics = <<>>
    /\ entries = NoEntries
    /\ endpoints = NoResult
    /\ no_corresponding_endpoints = <<>>
    /\ wirte_metrics = <<>>
    /\ subs = <<>>
    /\ metrics_result_pairs = <<>>
    /\ cluster_error = NoClusterError
    /\ result = NoResult

NoLogs ==
    /\ routeCalls = <<>>
    /\ evictCalls = <<>>
    /\ poolCalls = <<>>
    /\ nodeCalls = <<>>

NoRace ==
    /\ gpc = [c \in Callers |-> "off"]
    /\ gep = [c \in Callers |-> None]
    /\ gnew = [c \in Callers |-> NoHandle]
    /\ gret = [c \in Callers |-> NoHandle]
    /\ dropped = {}

(* ClusterImpl::new *)
Init ==
    /\ IdleCall
    /\ NoLogs
    /\ NoRace
    /\ pool = [e \in Endpoints |-> NoHandle]
    /\ built = [e \in Endpoints |-> 0]

(* ------------------------------ Router --------------------------------- *)
(* Router::route(names): an error, or one Option<Endpoint> per name *)
RouteAnswers(names) ==
    {Err(e) : e \in RouterErrors}
        \cup {Ok(eps) : eps \in [1..Len(names) -> Endpoints \cup {None}]}

(* ------------------------------ query ---------------------------------- *)
(* map_err without the evict *)
QueryMapErrNoEvict(out, m) ==
    IF out.tag = "Err"
    THEN [result |-> Err(out.err), evicts |-> <<>>]
    ELSE [result |-> out, evicts |-> <<>>]

(* the evict run on the answer of the node, whatever it is *)
QueryMapErrAlwaysEvict(out, m) ==
    IF out.tag = "Err"
    THEN [result |-> Err(out.err), evicts |-> <<m>>]
    ELSE [result |-> out, evicts |-> <<m>>]

(* clnt.query_internal(..).await.map_err(|e| { evict(&req.metrics); e }) *)
QueryMapErr(out, m) ==
    IF out.tag = "Err"
    THEN [result |-> Err(out.err), evicts |-> <<m>>]
    ELSE [result |-> out, evicts |-> <<>>]

(* the router's error replaced by one of the client's own *)
RouteFailedAsUnknown(e) == Err(UnknownErr("Failed to route"))

(* Err(e) => return Err(e) in query, route(..).await? in write *)
RouteFailed(e) == Err(e)

(* routing the first metric alone *)
QueryRouteFirst(m) == <<m[1]>>

(* the names query hands to Router::route: &req.metrics *)
QueryRouteArg(m) == m

(* query up to the await of Router::route *)
QueryCall ==
    /\ pc = "idle"
    /\ \E m \in SeqsUpTo(Names, MaxNames) :
        /\ op' = "query"
        /\ metrics' = m
        /\ IF m = <<>>
           THEN /\ result' = Err(UnknownErr("Metrics in query request can't be empty in cluster mode"))
                /\ pc' = "returned"
                /\ UNCHANGED routeCalls
           ELSE /\ routeCalls' = Append(routeCalls, QueryRouteArg(m))
                /\ pc' = "q_route"
                /\ UNCHANGED result
    /\ UNCHANGED <<entries, endpoints, no_corresponding_endpoints, wirte_metrics,
                   subs, metrics_result_pairs, cluster_error>>
    /\ UNCHANGED <<evictCalls, poolCalls, nodeCalls, poolVars, raceVars>>

(* from the answer of the router to the await of query_internal *)
QueryRouted ==
    /\ pc = "q_route"
    /\ \E ans \in RouteAnswers(routeCalls[Len(routeCalls)]) :
        /\ endpoints' = ans
        /\ IF ans.tag = "Err"
           THEN /\ result' = RouteFailed(ans.err)
                /\ pc' = "returned"
                /\ UNCHANGED <<subs, poolVars, poolCalls, nodeCalls>>
           ELSE IF ans.val[1] = None
                THEN /\ result' = Err(UnknownErr("Metric doesn't have corresponding endpoint"))
                     /\ pc' = "returned"
                     /\ UNCHANGED <<subs, poolVars, poolCalls, nodeCalls>>
                ELSE LET got == get_or_create(pool, built, ans.val[1])
                     IN  /\ pool' = got.pool
                         /\ built' = got.built
                         /\ poolCalls' = Append(poolCalls, ans.val[1])
                         /\ subs' = <<[ep |-> ans.val[1], names |-> metrics,
                                       clnt |-> got.clnt, status |-> "pending",
                                       result |-> NoResult]>>
                         /\ nodeCalls' = Append(nodeCalls,
                                [ep |-> ans.val[1], clnt |-> got.clnt, names |-> metrics])
                         /\ pc' = "q_node"
                         /\ UNCHANGED result
    /\ UNCHANGED <<op, metrics, entries, no_corresponding_endpoints, wirte_metrics,
                   metrics_result_pairs, cluster_error>>
    /\ UNCHANGED <<routeCalls, evictCalls, raceVars>>

(* the single-node query resolves *)
QueryDone ==
    /\ pc = "q_node"
    /\ \E out \in QueryOutcomes :
        LET r == QueryMapErr(out, metrics)
        IN  /\ subs' = [subs EXCEPT ![1].status = "ready", ![1].result = out]
            /\ evictCalls' = evictCalls \o r.evicts
            /\ result' = r.result
    /\ pc' = "returned"
    /\ UNCHANGED <<op, metrics, entries, endpoints, no_corresponding_endpoints,
                   wirte_metrics, metrics_result_pairs, cluster_error>>
    /\ UNCHANGED <<routeCalls, poolCalls, nodeCalls, poolVars, raceVars>>

(* ------------------------------ write ---------------------------------- *)
Min(a, b) == IF a < b THEN a ELSE b

(* endpoints.into_iter().zip(should_routes.into_iter()): the positions the *)
(* zip visits                                                              *)
Zipped(eps, names) == 1..Min(Len(eps), Len(names))

(* a None arm that pushes nothing *)
NoCorrespondingDropped(eps, names) == <<>>

(* the None arm of the partition loop, in the order of the names *)
RECURSIVE NoCorresponding(_, _)
NoCorresponding(eps, names) ==
    IF eps = <<>> \/ names = <<>> THEN <<>>
    ELSE (IF Head(eps) = None THEN <<Head(names)>> ELSE <<>>)
             \o NoCorresponding(Tail(eps), Tail(names))

(* a Some arm that copies every routed entry into each sub-request *)
PartitionWholeRequest(eps, names, ents) ==
    [ep \in {eps[i] : i \in Zipped(eps, names)} \ {None} |->
        [m \in {names[i] : i \in {j \in Zipped(eps, names) : eps[j] # None}} |-> ents[m]]]

(* the Some arm: partition_by_endpoint, endpoint -> write_entries routed there *)
PartitionByEndpoint(eps, names, ents) ==
    [ep \in {eps[i] : i \in Zipped(eps, names)} \ {None} |->
        [m \in {names[i] : i \in {j \in Zipped(eps, names) : eps[j] = ep}} |-> ents[m]]]

(* the futures of lines 88-101: sub-request idx goes to endpoint order[idx] *)
(* through the pooled client, its names listed in order names[idx]         *)
Futures(order, names, clnts, parts) ==
    [idx \in DOMAIN order |->
        [ep |-> order[idx], names |-> names[idx], req |-> parts[order[idx]],
         clnt |-> clnts[idx], status |-> "created", result |-> NoResult]]

(* try_join_all: ready as soon as one future failed *)
TryJoinAllReady(fs) ==
    \/ \A i \in DOMAIN fs : fs[i].status = "ready"
    \/ \E i \in DOMAIN fs : fs[i].status = "ready" /\ fs[i].result.tag = "Err"

(* join_all is ready when every future is *)
JoinAllReady(fs) == \A i \in DOMAIN fs : fs[i].status = "ready"

(* the synthetic entry pushed at lines 110-115 *)
UnroutableEntry(names) ==
    <<names, Err(UnknownErr("Metrics don't have corresponding endpoints"))>>

(* join_all(futures).zip(wirte_metrics).map(|(r, m)| (m, r)), then the push *)
MetricsResultPairs(fs, wm, unroutable) ==
    [i \in 1..Min(Len(fs), Len(wm)) |-> <<wm[i], fs[i].result>>]
        \o <<UnroutableEntry(unroutable)>>

(* the filter without should_refresh *)
EvictOfAnyServer(pair) ==
    IF pair[2].tag = "Err" /\ pair[2].err.kind = "Server" THEN pair[1] ELSE <<>>

(* the filter_map of lines 120-131, flattened *)
EvictOf(pair) ==
    IF /\ pair[2].tag = "Err"
       /\ pair[2].err.kind = "Server"
       /\ should_refresh(pair[2].err.code, pair[2].err.msg)
    THEN pair[1]
    ELSE <<>>

Evicts(pairs) == Flatten([i \in DOMAIN pairs |-> EvictOf(pairs[i])])

(* a lone failure returned on its own *)
WriteReturnFirstError(ce) ==
    IF all_ok(ce) THEN Ok(ce.ok[2]) ELSE Err(ce.errors[1][2])

(* lines 134-139 *)
WriteReturn(ce) ==
    IF all_ok(ce) THEN Ok(ce.ok[2]) ELSE Err(ClusterWriteErr(ce))

(* write up to the await of Router::route: should_routes lists the keys of *)
(* req.write_entries in the iteration order of the map                     *)
WriteCall ==
    /\ pc = "idle"
    /\ \E keys \in SUBSET Names : \E should_routes \in Perms(keys) :
        /\ entries' = [m \in keys |-> Payload(m)]
        /\ metrics' = should_routes
        /\ routeCalls' = Append(routeCalls, should_routes)
    /\ op' = "write"
    /\ pc' = "w_route"
    /\ UNCHANGED <<endpoints, no_corresponding_endpoints, wirte_metrics, subs,
                   metrics_result_pairs, cluster_error, result>>
    /\ UNCHANGED <<evictCalls, poolCalls, nodeCalls, poolVars, raceVars>>

(* from the answer of the router to the call of join_all *)
WriteRouted ==
    /\ pc = "w_route"
    /\ \E ans \in RouteAnswers(metrics) :
        /\ endpoints' = ans
        /\ IF ans.tag = "Err"
           THEN /\ result' = RouteFailed(ans.err)
                /\ pc' = "returned"
                /\ UNCHANGED <<no_corresponding_endpoints, wirte_metrics,
                               subs, poolVars, poolCalls>>
           ELSE LET parts == PartitionByEndpoint(ans.val, metrics, entries)
             IN  \E order \in Perms(DOMAIN parts) :
                 \E wm \in Choices([idx \in DOMAIN order |-> Perms(DOMAIN parts[order[idx]])]) :
                    /\ LET got == GetClients(pool, built, order)
                       IN  /\ pool' = got.pool
                           /\ built' = got.built
                           /\ subs' = Futures(order, wm, got.clnts, parts)
                    /\ no_corresponding_endpoints' = NoCorresponding(ans.val, metrics)
                    /\ wirte_metrics' = wm
                    /\ poolCalls' = poolCalls \o order
                    /\ pc' = "w_join"
                    /\ UNCHANGED result
    /\ UNCHANGED <<op, metrics, entries, metrics_result_pairs, cluster_error>>
    /\ UNCHANGED <<routeCalls, evictCalls, nodeCalls, raceVars>>

(* the first poll of join_all polls the futures in order: the next one     *)
(* sends its request and is pending, or resolves at once                   *)
PollFuture ==
    /\ pc = "w_join"
    /\ \E idx \in DOMAIN subs :
        /\ subs[idx].status = "created"
        /\ \A j \in 1..(idx - 1) : subs[j].status # "created"
        /\ nodeCalls' = Append(nodeCalls,
               [ep |-> subs[idx].ep, clnt |-> subs[idx].clnt,
                names |-> subs[idx].names, req |-> subs[idx].req])
        /\ \/ subs' = [subs EXCEPT ![idx].status = "pending"]
           \/ \E out \in NodeWriteOutcomes(Len(subs[idx].names)) :
                subs' = [subs EXCEPT ![idx].status = "ready", ![idx].result = out]
    /\ UNCHANGED <<pc, op, metrics, entries, endpoints, no_corresponding_endpoints,
                   wirte_metrics, metrics_result_pairs, cluster_error, result>>
    /\ UNCHANGED <<routeCalls, evictCalls, poolCalls, poolVars, raceVars>>

(* the first poll of join_all ends: write goes on if every future is       *)
(* ready, and is suspended otherwise                                       *)
JoinAllPolled ==
    /\ pc = "w_join"
    /\ \A idx \in DOMAIN subs : subs[idx].status # "created"
    /\ pc' = IF JoinAllReady(subs) THEN "w_joined" ELSE "w_suspended"
    /\ UNCHANGED <<op, metrics, entries, endpoints, no_corresponding_endpoints,
                   wirte_metrics, subs, metrics_result_pairs, cluster_error, result>>
    /\ UNCHANGED <<logVars, poolVars, raceVars>>

(* a pending sub-write resolves and join_all is polled again *)
FutureResolves ==
    /\ pc = "w_suspended"
    /\ \E idx \in DOMAIN subs : \E out \in NodeWriteOutcomes(Len(subs[idx].names)) :
        /\ subs[idx].status = "pending"
        /\ subs' = [subs EXCEPT ![idx].status = "ready", ![idx].result = out]
    /\ pc' = IF JoinAllReady(subs') THEN "w_joined" ELSE "w_suspended"
    /\ UNCHANGED <<op, metrics, entries, endpoints, no_corresponding_endpoints,
                   wirte_metrics, metrics_result_pairs, cluster_error, result>>
    /\ UNCHANGED <<logVars, poolVars, raceVars>>

(* after join_all: collect, evict, merge, return *)
WriteFinish ==
    /\ pc = "w_joined"
    /\ LET pairs == MetricsResultPairs(subs, wirte_metrics, no_corresponding_endpoints)
           ce == From(pairs)
       IN  /\ metrics_result_pairs' = pairs
           /\ evictCalls' = Append(evictCalls, Evicts(pairs))
           /\ cluster_error' = ce
           /\ result' = WriteReturn(ce)
    /\ pc' = "returned"
    /\ UNCHANGED <<op, metrics, entries, endpoints, no_corresponding_endpoints,
                   wirte_metrics, subs>>
    /\ UNCHANGED <<routeCalls, poolCalls, nodeCalls, poolVars, raceVars>>

(* the caller takes the result; the next call starts from a clean slate,   *)
(* the pool stays                                                          *)
Return ==
    /\ pc = "returned"
    /\ pc' = "idle"
    /\ op' = "none"
    /\ metrics' = <<>>
    /\ entries' = NoEntries
    /\ endpoints' = NoResult
    /\ no_corresponding_endpoints' = <<>>
    /\ wirte_metrics' = <<>>
    /\ subs' = <<>>
    /\ metrics_result_pairs' = <<>>
    /\ cluster_error' = NoClusterError
    /\ result' = NoResult
    /\ routeCalls' = <<>>
    /\ evictCalls' = <<>>
    /\ poolCalls' = <<>>
    /\ nodeCalls' = <<>>
    /\ UNCHANGED <<poolVars, raceVars>>

Next ==
    \/ QueryCall
    \/ QueryRouted
    \/ QueryDone
    \/ WriteCall
    \/ WriteRouted
    \/ PollFuture
    \/ JoinAllPolled
    \/ FutureResolves
    \/ WriteFinish
    \/ Return

Spec == Init /\ [][Next]_vars

(* ------------------- racing get_or_create ------------------------------ *)
(* NumCallers threads are inside get_or_create, each with its endpoint *)
InitPool ==
    /\ IdleCall
    /\ NoLogs
    /\ pool = [e \in Endpoints |-> NoHandle]
    /\ built = [e \in Endpoints |-> 0]
    /\ gpc = [c \in Callers |-> "get"]
    /\ gep \in [Callers -> Endpoints]
    /\ gnew = [c \in Callers |-> NoHandle]
    /\ gret = [c \in Callers |-> NoHandle]
    /\ dropped = {}

(* line 167: self.pool.get(endpoint) *)
Lookup(c) ==
    /\ gpc[c] = "get"
    /\ IF PoolGet(pool, gep[c]) # NoHandle
       THEN /\ gret' = [gret EXCEPT ![c] = PoolGet(pool, gep[c])]
            /\ gpc' = [gpc EXCEPT ![c] = "done"]
       ELSE /\ gpc' = [gpc EXCEPT ![c] = "insert"]
            /\ UNCHANGED gret
    /\ UNCHANGED <<gep, gnew, dropped, poolVars, callVars, logVars>>

(* lines 172-177: entry(endpoint) locks the key, the handle is built,      *)
(* or_insert keeps whichever handle is there and the caller gets a clone   *)
Insert(c) ==
    /\ gpc[c] = "insert"
    /\ LET h == built[gep[c]] + 1
           p2 == OrInsert(pool, gep[c], h)
       IN  /\ built' = [built EXCEPT ![gep[c]] = h]
           /\ pool' = p2
           /\ gnew' = [gnew EXCEPT ![c] = h]
           /\ gret' = [gret EXCEPT ![c] = p2[gep[c]]]
           /\ dropped' = IF p2[gep[c]] = h THEN dropped ELSE dropped \cup {<<gep[c], h>>}
    /\ gpc' = [gpc EXCEPT ![c] = "done"]
    /\ UNCHANGED <<gep, callVars, logVars>>

(* the caller got its handle and calls get_or_create for its endpoint     *)
(* once more                                                               *)
Again(c) ==
    /\ gpc[c] = "done"
    /\ gpc' = [gpc EXCEPT ![c] = "get"]
    /\ gnew' = [gnew EXCEPT ![c] = NoHandle]
    /\ gret' = [gret EXCEPT ![c] = NoHandle]
    /\ UNCHANGED <<gep, dropped, poolVars, callVars, logVars>>

NextPool == \E c \in Callers : Lookup(c) \/ Insert(c) \/ Again(c)

SpecPool == InitPool /\ [][NextPool]_vars

(* ------------------- the merge on its own ------------------------------ *)
(* entry i of a result list carries no name or its own name, and any      *)
(* outcome                                                                 *)
(* the outcomes from() tells apart: a response with its two counts, or an *)
(* error, of a node or the one write pushes for the unroutable names      *)
MergeOutcomes ==
    {Ok(r) : r \in {w \in WriteResponses : w.success + w.failed <= MaxRows}}
        \cup {Err(ServerErr(500, "internal")),
              Err(UnknownErr("Metrics don't have corresponding endpoints"))}

MergeEntries(i) ==
    {<<>>, <<AllNames[((i - 1) % MaxNames) + 1]>>} \X MergeOutcomes

InitMerge ==
    /\ pc = "m_input"
    /\ op = "none"
    /\ metrics = <<>>
    /\ entries = NoEntries
    /\ endpoints = NoResult
    /\ no_corresponding_endpoints = <<>>
    /\ wirte_metrics = <<>>
    /\ subs = <<>>
    /\ metrics_result_pairs = <<>>
    /\ cluster_error = NoClusterError
    /\ result = NoResult
    /\ NoLogs
    /\ NoRace
    /\ pool = [e \in Endpoints |-> NoHandle]
    /\ built = [e \in Endpoints |-> 0]

(* the caller of from() builds its argument, up to MaxResults entries *)
Push ==
    /\ pc = "m_input"
    /\ Len(metrics_result_pairs) < MaxResults
    /\ \E entry \in MergeEntries(Len(metrics_result_pairs) + 1) :
        metrics_result_pairs' = Append(metrics_result_pairs, entry)
    /\ UNCHANGED <<pc, op, metrics, entries, endpoints, no_corresponding_endpoints,
                   wirte_metrics, subs, cluster_error, result>>
    /\ UNCHANGED <<logVars, poolVars, raceVars>>

(* let cluster_error: ClusterWriteError = metrics_result_pairs.into() *)
Merge ==
    /\ pc = "m_input"
    /\ cluster_error' = From(metrics_result_pairs)
    /\ pc' = "m_done"
    /\ UNCHANGED <<op, metrics, entries, endpoints, no_corresponding_endpoints,
                   wirte_metrics, subs, metrics_result_pairs, result>>
    /\ UNCHANGED <<logVars, poolVars, raceVars>>

NextMerge == Push \/ Merge

SpecMerge == InitMerge /\ [][NextMerge]_vars

(* ------------------------------ properties ----------------------------- *)
WriteReturned == pc = "returned" /\ op = "write"
QueryReturned == pc = "returned" /\ op = "query"

(* write returned after Router::route answered Ok *)
RoutedWriteReturned == WriteReturned /\ endpoints.tag = "Ok"

AllRouted == endpoints.tag = "Ok" /\ \A i \in DOMAIN endpoints.val : endpoints.val[i] # None
AllSubsOk == \A i \in DOMAIN subs : subs[i].result.tag = "Ok"

RECURSIVE SumOf(_, _)
SumOf(f, S) == IF S = {} THEN 0 ELSE LET x == CHOOSE x \in S : TRUE IN f[x] + SumOf(f, S \ {x})

(* the names an aggregate holds: ok.names, then the names of every errors entry *)
AggregateNames(ce) ==
    ce.ok[1] \o Flatten([i \in DOMAIN ce.errors |-> ce.errors[i][1]])

(* C1: a non-empty write whose names are all routed and whose sub-writes   *)
(* all succeed returns Ok with the merged WriteResponse, and the aggregate *)
(* built from the outcomes is all_ok (no errors entry).                    *)
C1_AllOkWriteReturnsOk ==
    (RoutedWriteReturned /\ metrics # <<>> /\ AllRouted /\ AllSubsOk)
        => /\ result.tag = "Ok"
           /\ result.val = WriteResponse(
                  SumOf([i \in DOMAIN subs |-> subs[i].result.val.success], DOMAIN subs),
                  SumOf([i \in DOMAIN subs |-> subs[i].result.val.failed], DOMAIN subs))
           /\ all_ok(cluster_error)

(* C2: after a write whose routing call answered, every name of the        *)
(* request occurs exactly once across ok.names and the name lists of the   *)
(* errors entries, and no other name occurs.                               *)
C2_NamesPartitioned ==
    RoutedWriteReturned
        => LET all == AggregateNames(cluster_error)
           IN  /\ \A m \in DOMAIN entries : Count(all, m) = 1
               /\ Range(all) \subseteq DOMAIN entries
               /\ Len(all) = Cardinality(DOMAIN entries)

C2_Witness ==
    /\ RoutedWriteReturned
    /\ cluster_error.ok[1] # <<>>
    /\ \E i \in DOMAIN cluster_error.errors :
        /\ cluster_error.errors[i][1] # <<>>
        /\ cluster_error.errors[i][2].kind = "Server"

(* the sub-writes whose failure asks for a refresh of the route *)
RefreshFailed(sub) ==
    /\ sub.result.tag = "Err"
    /\ sub.result.err.kind = "Server"
    /\ should_refresh(sub.result.err.code, sub.result.err.msg)

(* C3: write calls Router::evict once, with exactly the names of the       *)
(* sub-writes that failed with a Server error satisfying should_refresh,   *)
(* each once; no name of another sub-write or of the unroutable group.     *)
(* A write whose routing call failed sends no sub-write and evicts nothing.*)
C3_EvictsExactlyRefreshFailures ==
    /\ (WriteReturned /\ endpoints.tag = "Err") => evictCalls = <<>>
    /\ RoutedWriteReturned
        => /\ Len(evictCalls) = 1
           /\ Range(evictCalls[1])
                = UNION {Range(subs[i].names) : i \in {j \in DOMAIN subs : RefreshFailed(subs[j])}}
           /\ \A m \in Range(evictCalls[1]) : Count(evictCalls[1], m) = 1
           /\ \A i \in DOMAIN subs :
                ~RefreshFailed(subs[i]) => Range(subs[i].names) \cap Range(evictCalls[1]) = {}
           /\ Range(no_corresponding_endpoints) \cap Range(evictCalls[1]) = {}

C3_Witness ==
    /\ RoutedWriteReturned
    /\ evictCalls[1] # <<>>
    /\ no_corresponding_endpoints # <<>>
    /\ \E i \in DOMAIN subs : RefreshFailed(subs[i])

(* C4: callers racing in get_or_create for one endpoint all get the handle *)
(* the pool retains for it; a handle that lost the race is returned to     *)
(* nobody and is not in the pool.                                          *)
C4_OneHandlePerEndpoint ==
    /\ \A c \in Callers : gpc[c] = "done"
            => gret[c] # NoHandle /\ gret[c] = pool[gep[c]]
    /\ \A c, d \in Callers :
            (gpc[c] = "done" /\ gpc[d] = "done" /\ gep[c] = gep[d]) => gret[c] = gret[d]
    /\ \A h \in dropped :
            /\ \A c \in Callers : <<gep[c], gret[c]>> # h
            /\ pool[h[1]] # h[2]

C4_Witness ==
    /\ \A c \in Callers : gpc[c] = "done" /\ gep[c] = gep[1]
    /\ Cardinality(dropped) = NumCallers - 1

(* the names the router gave no endpoint *)
UnroutedNames ==
    {metrics[i] : i \in {j \in DOMAIN endpoints.val : endpoints.val[j] = None}}

(* C5: every name without an endpoint is in an errors entry whose error is *)
(* a Client error, and no call to a node or to the pool is made for it.    *)
C5_UnroutableIsClientError ==
    RoutedWriteReturned
        => \A m \in UnroutedNames :
            /\ \E i \in DOMAIN cluster_error.errors :
                /\ m \in Range(cluster_error.errors[i][1])
                /\ cluster_error.errors[i][2].kind = "Client"
            /\ \A i \in DOMAIN nodeCalls : m \notin Range(nodeCalls[i].names)
            /\ Range(poolCalls) = {nodeCalls[i].ep : i \in DOMAIN nodeCalls}

(* C6: a query without metrics fails with a Client error, and the router,  *)
(* the pool and the nodes are not called.                                  *)
C6_EmptyQueryIsClientError ==
    (QueryReturned /\ metrics = <<>>)
        => /\ result.tag = "Err"
           /\ result.err.kind = "Client"
           /\ routeCalls = <<>> /\ evictCalls = <<>>
           /\ poolCalls = <<>> /\ nodeCalls = <<>>

(* C7 as stated: an error returned by write is always the aggregate *)
C7_WriteErrorIsAlwaysAggregate ==
    (WriteReturned /\ result.tag = "Err") => result.err.kind = "ClusterWriteError"

(* C7: an error returned by write after Router::route answered is the      *)
(* aggregate ClusterWriteError, also when one endpoint alone failed; only  *)
(* a failure of Router::route is returned on its own, unchanged.           *)
C7_WriteErrorIsAggregateOrRouteError ==
    (WriteReturned /\ result.tag = "Err")
        => IF endpoints.tag = "Ok"
           THEN /\ result.err.kind = "ClusterWriteError"
                /\ result.err.ce = cluster_error
                /\ \A i \in DOMAIN subs : subs[i].result.tag = "Err" =>
                       \E k \in DOMAIN result.err.ce.errors :
                           result.err.ce.errors[k] = <<subs[i].names, subs[i].result.err>>
           ELSE result = endpoints

C7_Witness ==
    /\ RoutedWriteReturned
    /\ result.tag = "Err"
    /\ Len(subs) = 2
    /\ no_corresponding_endpoints = <<>>
    /\ Cardinality({i \in DOMAIN subs : subs[i].result.tag = "Err"}) = 1

(* the entries of a result list that succeeded *)
OkEntries(rs) == {i \in DOMAIN rs : rs[i][2].tag = "Ok"}

(* C8: the aggregate's WriteResponse sums success and failed over the      *)
(* successful outcomes only; both are zero when none succeeded.            *)
C8_TotalsAreSums ==
    pc = "m_done"
        => LET rs == metrics_result_pairs
               oks == OkEntries(rs)
           IN  /\ cluster_error.ok[2].success
                    = SumOf([i \in DOMAIN rs |-> IF i \in oks THEN rs[i][2].val.success ELSE 0], oks)
               /\ cluster_error.ok[2].failed
                    = SumOf([i \in DOMAIN rs |-> IF i \in oks THEN rs[i][2].val.failed ELSE 0], oks)
               /\ oks = {} => cluster_error.ok[2] = WriteResponse(0, 0)

C8_Witness ==
    /\ pc = "m_done"
    /\ Cardinality(OkEntries(metrics_result_pairs)) >= 2
    /\ OkEntries(metrics_result_pairs) # DOMAIN metrics_result_pairs
    /\ cluster_error.ok[2].success >= 1
    /\ cluster_error.ok[2].failed >= 1

(* C9: when the single-node query fails, query calls Router::evict with    *)
(* req.metrics and returns that very error.                                *)
C9_QueryFailureEvictsAndPropagates ==
    (QueryReturned /\ subs # <<>> /\ subs[1].result.tag = "Err")
        => /\ evictCalls = <<metrics>>
           /\ result = Err(subs[1].result.err)

C9_Witness ==
    /\ QueryReturned
    /\ subs # <<>>
    /\ subs[1].result.tag = "Err"
    /\ subs[1].result.err.kind = "Rpc"
    /\ Len(metrics) = 2

(* C10: write is never suspended in join_all with a sub-write not yet      *)
(* launched, every launched sub-write has sent its request, and neither    *)
(* Router::evict nor the return happens while a sub-write is unresolved.   *)
C10_JoinBarrier ==
    op = "write"
        => /\ pc = "w_suspended" => \A i \in DOMAIN subs : subs[i].status # "created"
           /\ Len(nodeCalls) = Cardinality({i \in DOMAIN subs : subs[i].status # "created"})
           /\ (pc = "w_joined" \/ RoutedWriteReturned \/ evictCalls # <<>>)
                  => \A i \in DOMAIN subs : subs[i].status = "ready"

C10_Witness ==
    /\ op = "write"
    /\ pc = "w_suspended"
    /\ \E i, j \in DOMAIN subs :
        /\ subs[i].status = "ready" /\ subs[i].result.tag = "Err"
        /\ subs[j].status = "pending"

(* C11: in query and in write, names are evicted only for a sub-request    *)
(* that failed with a Server error satisfying should_refresh; no other     *)
(* failure evicts a name.                                                  *)
C11_OnlyRefreshFailuresEvict ==
    pc = "returned"
        => Range(Flatten(evictCalls))
               \subseteq UNION {Range(subs[i].names) :
                                   i \in {j \in DOMAIN subs : RefreshFailed(subs[j])}}

(* C12: the outcome list handed to the merge has an entry for the          *)
(* unroutable group exactly when some name had no endpoint, and no errors  *)
(* entry of an aggregate has an empty name list.                           *)
C12_UnroutableEntryOnlyIfUnrouted ==
    RoutedWriteReturned
        => /\ Len(metrics_result_pairs)
                = Len(subs) + (IF UnroutedNames # {} THEN 1 ELSE 0)
           /\ \A k \in DOMAIN cluster_error.errors : cluster_error.errors[k][1] # <<>>

(* the endpoints the router answered, and the names it gave to one *)
AnsweredEndpoints == Range(endpoints.val) \ {None}
RoutedTo(ep) == {metrics[i] : i \in {j \in DOMAIN endpoints.val : endpoints.val[j] = ep}}

(* C13: in one write each endpoint the router answered is sent exactly one *)
(* sub-write, holding exactly the request's entries of the names routed    *)
(* to it; nothing else is sent and no sub-write is sent twice, whether it  *)
(* failed or not.                                                          *)
C13_OneSubWritePerEndpoint ==
    /\ op = "write"
        => \A i, j \in DOMAIN nodeCalls : nodeCalls[i].ep = nodeCalls[j].ep => i = j
    /\ RoutedWriteReturned
        => /\ Len(nodeCalls) = Cardinality(AnsweredEndpoints)
           /\ \A ep \in AnsweredEndpoints :
                \E i \in DOMAIN nodeCalls :
                    /\ nodeCalls[i].ep = ep
                    /\ nodeCalls[i].req = [m \in RoutedTo(ep) |-> entries[m]]

C13_Witness ==
    /\ RoutedWriteReturned
    /\ Len(nodeCalls) = 2
    /\ no_corresponding_endpoints = <<>>
    /\ \E i \in DOMAIN subs : subs[i].result.tag = "Err"

(* C14 as stated: Router::route is given one name by query *)
C14_QueryRoutesOneName ==
    op = "query" => \A k \in DOMAIN routeCalls : Len(routeCalls[k]) = 1

(* C14: a non-empty query calls Router::route once, with the whole list    *)
(* req.metrics (one name only when the request names one metric), and      *)
(* goes to the endpoint answered for the first of them.                    *)
C14_QueryRoutesAllMetrics ==
    (op = "query" /\ metrics # <<>>)
        => /\ routeCalls = <<metrics>>
           /\ pc = "q_node" => /\ Len(endpoints.val) = Len(metrics)
                               /\ subs[1].ep = endpoints.val[1]

C14_Witness ==
    /\ op = "query"
    /\ pc = "q_node"
    /\ Len(metrics) = 2
    /\ metrics[1] # metrics[2]
    /\ endpoints.val[1] # endpoints.val[2]

(* C15: when the router has no endpoint for the queried name, query fails  *)
(* with a Client error after one route call, without a pool lookup, a      *)
(* call to a node or an evict.                                             *)
C15_UnroutedQueryIsClientError ==
    (QueryReturned /\ endpoints.tag = "Ok" /\ endpoints.val[1] = None)
        => /\ result.tag = "Err"
           /\ result.err.kind = "Client"
           /\ Len(routeCalls) = 1
           /\ poolCalls = <<>> /\ nodeCalls = <<>> /\ evictCalls = <<>>

(* the same elements, each as often *)
SameBag(s, t) == \A x \in Range(s) \cup Range(t) : Count(s, x) = Count(t, x)

(* every permutation of the positions of a list of n entries *)
Orders == [n \in 0..MaxResults |-> Perms(1..n)]

(* C16: merging any permutation of a list of (names, outcome) entries      *)
(* gives the same totals, the same set of successfully written names, the  *)
(* same collection of error records and the same all_ok.                   *)
C16_MergeIgnoresOrder ==
    pc = "m_done"
        => \A p \in Orders[Len(metrics_result_pairs)] :
              LET permuted == [i \in DOMAIN metrics_result_pairs |-> metrics_result_pairs[p[i]]]
                  other == From(permuted)
              IN  /\ other.ok[2] = cluster_error.ok[2]
                  /\ Range(other.ok[1]) = Range(cluster_error.ok[1])
                  /\ SameBag(other.errors, cluster_error.errors)
                  /\ all_ok(other) = all_ok(cluster_error)

C16_Witness ==
    /\ pc = "m_done"
    /\ Len(metrics_result_pairs) = 3
    /\ Cardinality(OkEntries(metrics_result_pairs)) = 2
    /\ \E i, j \in OkEntries(metrics_result_pairs) :
          metrics_result_pairs[i][2] # metrics_result_pairs[j][2]
    /\ From(<<metrics_result_pairs[3], metrics_result_pairs[2], metrics_result_pairs[1]>>)
          # cluster_error

(* C17: the pool only grows: an endpoint that has a handle keeps that very *)
(* handle, and every get_or_create finishing for it returns that handle;  *)
(* what a racing caller built for it is not retained.                      *)
C17_PoolOnlyGrows ==
    [][\A e \in Endpoints :
          pool[e] # NoHandle
              => /\ pool'[e] = pool[e]
                 /\ \A c \in Callers :
                       (gep[c] = e /\ gpc[c] # "done" /\ gpc'[c] = "done")
                           => /\ gret'[c] = pool[e]
                              /\ gnew'[c] # NoHandle => <<e, gnew'[c]>> \in dropped']_vars

C17_Witness ==
    /\ \A c \in Callers : gpc[c] = "done" /\ gret[c] = pool[gep[c]]
    /\ \E c \in Callers : gnew[c] = NoHandle
    /\ \E c \in Callers : gnew[c] # NoHandle /\ <<gep[c], gnew[c]>> \in dropped
    /\ \E e \in Endpoints : built[e] >= 2

(* C18: a query whose node call succeeds returns the node's response      *)
(* unchanged, evicts nothing, and has made one route call, one pool        *)
(* lookup and one node query, both for the endpoint routed first.          *)
C18_SuccessfulQueryPassesThrough ==
    (QueryReturned /\ subs # <<>> /\ subs[1].result.tag = "Ok")
        => /\ result = subs[1].result
           /\ evictCalls = <<>>
           /\ Len(routeCalls) = 1
           /\ poolCalls = <<endpoints.val[1]>>
           /\ Len(nodeCalls) = 1
           /\ nodeCalls[1].ep = endpoints.val[1]
           /\ nodeCalls[1].clnt = pool[endpoints.val[1]]

C18_Witness ==
    /\ QueryReturned
    /\ result.tag = "Ok"
    /\ result.val.affected = MaxRows
    /\ Len(metrics) = 2
    /\ nodeCalls # <<>>

(* C19: when Router::route fails, query and write return the router's      *)
(* error itself, after that one route call and nothing else: no pool       *)
(* lookup, no node call, no evict, no handle built.                        *)
C19_RouteFailurePropagates ==
    (pc = "returned" /\ endpoints.tag = "Err")
        => /\ result = Err(endpoints.err)
           /\ endpoints.err \in RouterErrors
           /\ Len(routeCalls) = 1
           /\ poolCalls = <<>> /\ nodeCalls = <<>> /\ evictCalls = <<>>
           /\ subs = <<>> /\ metrics_result_pairs = <<>>

C19_Witness ==
    /\ pc = "returned"
    /\ op = "query"
    /\ endpoints.tag = "Err"
    /\ endpoints.err.kind = "Server"
    /\ result = endpoints
    /\ \E e \in Endpoints : pool[e] # NoHandle

(* C20: the pool is out of reach of evictions and failures: a handle is    *)
(* only ever added, for an endpoint the router answered in this call and   *)
(* that had none, and every handle a call used, failed or not, is still    *)
(* the pool's handle for its endpoint.                                     *)
C20_PoolUntouchedByFailures ==
    /\ [](\A i \in DOMAIN subs :
              subs[i].clnt # NoHandle /\ pool[subs[i].ep] = subs[i].clnt)
    /\ [][/\ \A e \in Endpoints :
                pool'[e] # pool[e]
                    => /\ pool[e] = NoHandle
                       /\ endpoints'.tag = "Ok"
                       /\ e \in Range(endpoints'.val)
          /\ evictCalls' # evictCalls => pool' = pool]_vars

C20_Witness ==
    /\ pc = "returned"
    /\ evictCalls # <<>>
    /\ \E i \in DOMAIN subs :
          /\ subs[i].result.tag = "Err"
          /\ Range(subs[i].names) \subseteq Range(Flatten(evictCalls))
          /\ pool[subs[i].ep] = subs[i].clnt
          /\ built[subs[i].ep] = 1
    /\ \E e \in Endpoints : pool[e] = NoHandle

====
